---- MODULE Spec2Model ----
(***************************************************************************)
(* A model of nose/case.py: the Test wrapper (construction, run, runTest,  *)
(* string form, shortDescription, context) and the FunctionTestCase and    *)
(* MethodTestCase wrappers (construction, fixtures, runTest, address,      *)
(* string form).                                                           *)
(*                                                                         *)
(* Objects are identified by their names (strings).  Every call that       *)
(* leaves case.py (a hook of the result, a plugin hook, the result-proxy   *)
(* factory, the test callable) is an input: it returns, or it raises an    *)
(* exception of one of three classes that the except clauses of run tell   *)
(* apart.                                                                  *)
(***************************************************************************)
EXTENDS Naturals, Sequences, FiniteSets

VARIABLES
    self,        \* the fields of the one Test object (Unassigned before __init__)
    ctor,        \* the last call of Test.__init__: its test argument, what it raised
                 \* and the fields of the object it was initialising
    pc,          \* position of the running call of run / runTest
    entry,       \* which method the caller invoked: "run" or "runTest"
    origResult,  \* the result object the caller passed
    result,      \* the local variable result of run (the proxy once line 110 ran)
    plug,        \* the local variable plug_test of runTest
    called,      \* the local variable test of runTest at line 131
    pending,     \* the exception in flight inside run
    log,         \* the calls made so far by the running call, in order
    leaves,      \* how the call ended: Returned or the exception that left it
    qtest,       \* the wrapped test as the queries see it (its attributes)
    sd,          \* the last shortDescription() call: inputs and return value
    ctxReads,    \* number of reads of Test.context
    ctxEvals,    \* number of evaluations of Test._context
    firstCtx,    \* value returned by the first read of Test.context
    lastCtx,     \* value returned by the last read of Test.context
    heap,        \* the instances: class and instance attribute (0, or the number of the
                 \* case whose fixture or test wrote it last)
    cases,       \* the MethodTestCase objects built so far, in order
    lastWrite,   \* the last instance-attribute write: who, through what, on which object
    icase,       \* one FunctionTestCase or MethodTestCase under identity queries
    ilast        \* the last identity operation on icase and its result

runVars == <<self, ctor, pc, entry, origResult, result, plug, called, pending, log, leaves>>
queryVars == <<qtest, sd, ctxReads, ctxEvals, firstCtx, lastCtx>>
isoVars == <<heap, cases, lastWrite>>
identVars == <<icase, ilast>>
vars == <<runVars, queryVars, isoVars, identVars>>

None == "None"
Unassigned == "unassigned"

----------------------------------------------------------------------------
(* Exceptions.  KeyboardInterrupt and SystemExit derive from BaseException *)
(* only; "Exception" stands for every class derived from Exception.        *)

ExcClasses == {"KeyboardInterrupt", "Exception", "SystemExit"}
Outcomes == {"ok"} \cup ExcClasses

NoExc == [cls |-> "none", by |-> "none"]
Returned == [cls |-> "returned", by |-> "none"]
Running == [cls |-> "running", by |-> "none"]
Exc(cls, site) == [cls |-> cls, by |-> site]

IsException(cls) == cls = "Exception"

----------------------------------------------------------------------------
(* Test.__init__                                                           *)

\* candidate wrapped objects: two callables and one that is not callable
TestObjects == {[name |-> "t1", callable |-> TRUE],
                [name |-> "t2", callable |-> TRUE],
                [name |-> "n1", callable |-> FALSE]}
PlugTest == [name |-> "plugged", callable |-> TRUE]
Configs == {None, "cfg"}
ResultProxies == {None, "proxyFactory"}

NoTest == [name |-> Unassigned, callable |-> FALSE]
UnassignedSelf == [test |-> NoTest, config |-> Unassigned, tbinfo |-> Unassigned,
                   capturedOutput |-> Unassigned, resultProxy |-> Unassigned,
                   plugins |-> Unassigned, passed |-> Unassigned]

\* mutant: the callable check left out
Test_init_nocheck(test, config, resultProxy) ==
    LET cfg == IF config = None THEN "Config()" ELSE config
    IN [raised |-> None,
        obj |-> [test |-> test, config |-> cfg, tbinfo |-> None,
                 capturedOutput |-> None, resultProxy |-> resultProxy,
                 plugins |-> cfg, passed |-> None]]

Test_init(test, config, resultProxy) ==
    IF ~test.callable
    THEN [raised |-> "TypeError", obj |-> UnassignedSelf]
    ELSE LET cfg == IF config = None THEN "Config()" ELSE config
         IN [raised |-> None,
             obj |-> [test |-> test, config |-> cfg, tbinfo |-> None,
                      capturedOutput |-> None, resultProxy |-> resultProxy,
                      plugins |-> cfg, passed |-> None]]

Construct ==
    /\ pc = "idle"
    /\ \E t \in TestObjects, c \in Configs, rp \in ResultProxies :
         LET r == Test_init(t, c, rp)
         IN /\ ctor' = [test |-> t, raised |-> r.raised, obj |-> r.obj]
            /\ self' = IF r.raised = None THEN r.obj ELSE self
    /\ UNCHANGED <<pc, entry, origResult, result, plug, called, pending, log, leaves>>
    /\ UNCHANGED <<queryVars, isoVars, identVars>>

----------------------------------------------------------------------------
(* Test.run and Test.runTest                                               *)

\* result objects: the beforeTest / afterTest hooks are optional attributes
Results == [name : {"res"}, hasBefore : BOOLEAN, hasAfter : BOOLEAN]
Proxies == [name : {"proxy"}, hasBefore : BOOLEAN, hasAfter : BOOLEAN]
NoResult == [name |-> None, hasBefore |-> FALSE, hasAfter |-> FALSE]

\* one call made by run: the receiver, the first argument, the error information
\* passed (addError only) and how the call ended
Entry(op, on, arg, err, out) == [op |-> op, on |-> on, arg |-> arg, err |-> err, out |-> out]

\* mutant: the interrupt is handled like any other exception
ExceptClause_swallow(cls) ==
    IF IsException(cls) \/ cls = "KeyboardInterrupt" THEN "addError" ELSE "unhandled"

\* the except clauses of run, tried in order
ExceptClause(cls) ==
    IF cls = "KeyboardInterrupt" THEN "reraise"
    ELSE IF IsException(cls) THEN "addError"
    ELSE "unhandled"

\* mutant: afterTest as a plain last statement instead of a finally clause
Finally_plain(pend) == IF pend = NoExc THEN "after" ELSE "done"

\* the finally clause: where control goes when the try statement is left
Finally(pend) == "after"

\* mutant: the plugin's callable is ignored
Callee_ignore(test, plug_test) == test

\* runTest, lines 127-130: the callable invoked at line 131
Callee(test, plug_test) == IF plug_test # None THEN plug_test ELSE test

\* the try statement is left with pend in flight (NoExc: normally)
LeaveTry(pend) ==
    /\ pc' = Finally(pend)
    /\ pending' = pend
    /\ leaves' = IF Finally(pend) = "done" THEN pend ELSE leaves

\* an exception e left beforeTest or runTest inside the inner try
Raised(e) ==
    IF entry = "runTest"
    THEN /\ pc' = "done"
         /\ leaves' = e
         /\ pending' = pending
    ELSE IF ExceptClause(e.cls) = "addError"
         THEN /\ pc' = "addError"
              /\ pending' = e
              /\ leaves' = leaves
         ELSE LeaveTry(e)

CallRun ==
    /\ pc = "idle"
    /\ self # UnassignedSelf
    /\ \E r \in Results :
         /\ origResult' = r
         /\ result' = r
    /\ entry' = "run"
    /\ pc' = IF self.resultProxy # None THEN "proxy" ELSE "before"
    /\ log' = <<>>
    /\ plug' = None
    /\ called' = None
    /\ pending' = NoExc
    /\ leaves' = Running
    /\ UNCHANGED <<self, ctor, queryVars, isoVars, identVars>>

CallRunTest ==
    /\ pc = "idle"
    /\ self # UnassignedSelf
    /\ \E r \in Results :
         /\ origResult' = r
         /\ result' = r
    /\ entry' = "runTest"
    /\ pc' = "prepare"
    /\ log' = <<>>
    /\ plug' = None
    /\ called' = None
    /\ pending' = NoExc
    /\ leaves' = Running
    /\ UNCHANGED <<self, ctor, queryVars, isoVars, identVars>>

\* line 110: result = self.resultProxy(result, self), before the try statement
ProxyStep ==
    /\ pc = "proxy"
    /\ \E o \in Outcomes, p \in Proxies :
         /\ log' = Append(log, Entry("resultProxy", self.resultProxy, result.name, NoExc, o))
         /\ IF o = "ok"
            THEN /\ result' = p
                 /\ pc' = "before"
                 /\ leaves' = leaves
            ELSE /\ result' = result
                 /\ pc' = "done"
                 /\ leaves' = Exc(o, "resultProxy")
    /\ UNCHANGED <<self, ctor, entry, origResult, plug, called, pending>>
    /\ UNCHANGED <<queryVars, isoVars, identVars>>

\* line 113 and Test.beforeTest
BeforeStep ==
    /\ pc = "before"
    /\ IF ~result.hasBefore
       THEN /\ pc' = "prepare"
            /\ UNCHANGED <<log, pending, leaves>>
       ELSE \E o \in Outcomes :
              /\ log' = Append(log, Entry("beforeTest", result.name, self.test.name, NoExc, o))
              /\ IF o = "ok"
                 THEN /\ pc' = "prepare"
                      /\ UNCHANGED <<pending, leaves>>
                 ELSE Raised(Exc(o, "beforeTest"))
    /\ UNCHANGED <<self, ctor, entry, origResult, result, plug, called>>
    /\ UNCHANGED <<queryVars, isoVars, identVars>>

\* lines 127-130: plug_test = self.config.plugins.prepareTestCase(self)
PrepareStep ==
    /\ pc = "prepare"
    /\ \E o \in Outcomes, p \in {None, PlugTest.name} :
         /\ log' = Append(log, Entry("prepareTestCase", self.config, "self", NoExc, o))
         /\ IF o = "ok"
            THEN /\ plug' = p
                 /\ pc' = "test"
                 /\ UNCHANGED <<pending, leaves>>
            ELSE /\ plug' = plug
                 /\ Raised(Exc(o, "prepareTestCase"))
    /\ UNCHANGED <<self, ctor, entry, origResult, result, called>>
    /\ UNCHANGED <<queryVars, isoVars, identVars>>

\* line 131: test(result)
TestStep ==
    /\ pc = "test"
    /\ called' = Callee(self.test.name, plug)
    /\ \E o \in Outcomes :
         /\ log' = Append(log, Entry("call", Callee(self.test.name, plug), result.name, NoExc, o))
         /\ IF o = "ok"
            THEN IF entry = "runTest"
                 THEN /\ pc' = "done"
                      /\ leaves' = Returned
                      /\ pending' = pending
                 ELSE LeaveTry(NoExc)
            ELSE Raised(Exc(o, "test"))
    /\ UNCHANGED <<self, ctor, entry, origResult, result, plug>>
    /\ UNCHANGED <<queryVars, isoVars, identVars>>

\* lines 118-119: err = sys.exc_info(); result.addError(self, err)
AddErrorStep ==
    /\ pc = "addError"
    /\ \E o \in Outcomes :
         /\ log' = Append(log, Entry("addError", result.name, "self", pending, o))
         /\ IF o = "ok"
            THEN LeaveTry(NoExc)
            ELSE LeaveTry(Exc(o, "addError"))
    /\ UNCHANGED <<self, ctor, entry, origResult, result, plug, called>>
    /\ UNCHANGED <<queryVars, isoVars, identVars>>

\* line 121 and Test.afterTest
AfterStep ==
    /\ pc = "after"
    /\ pc' = "done"
    /\ IF ~result.hasAfter
       THEN /\ log' = log
            /\ leaves' = IF pending = NoExc THEN Returned ELSE pending
       ELSE \E o \in Outcomes :
              /\ log' = Append(log, Entry("afterTest", result.name, self.test.name, NoExc, o))
              /\ leaves' = IF o = "ok"
                           THEN (IF pending = NoExc THEN Returned ELSE pending)
                           ELSE Exc(o, "afterTest")
    /\ UNCHANGED <<self, ctor, entry, origResult, result, plug, called, pending>>
    /\ UNCHANGED <<queryVars, isoVars, identVars>>

\* the call is over; the caller may call again
Return ==
    /\ pc = "done"
    /\ pc' = "idle"
    /\ UNCHANGED <<self, ctor, entry, origResult, result, plug, called, pending, log, leaves>>
    /\ UNCHANGED <<queryVars, isoVars, identVars>>

NextRun ==
    \/ Construct
    \/ CallRun
    \/ CallRunTest
    \/ ProxyStep
    \/ BeforeStep
    \/ PrepareStep
    \/ TestStep
    \/ AddErrorStep
    \/ AfterStep
    \/ Return

----------------------------------------------------------------------------
(* Test.__str__, Test.shortDescription and Test.context                    *)

MaxReads == 3

Absent == "absent"
\* a call that raises: an exception derived from Exception, or one that is not
Raises == "raises"
RaisesBase == "raisesBase"
Strs == {"s1", "s2"}

\* the documentation attributes of the wrapped test: absent, None or a string
NoDoc == [state |-> Absent, val |-> <<>>]
NoneDoc == [state |-> None, val |-> <<>>]
StrDoc(s) == [state |-> "str", val |-> s]
DocTexts == {<<" ", "d", " ">>, <<"d">>}

NoCtx == [kind |-> None, of |-> None]
NoQTest == [context |-> Absent, cls |-> Absent, module |-> Absent,
            doc |-> NoDoc, mdoc |-> NoDoc, str |-> Absent, desc |-> Absent]
NoSd == [d |-> Absent, n |-> Absent, ret |-> Absent, raised |-> FALSE]

\* the wrapped tests the queries are made on: each optional attribute is present
\* or absent; str and desc are what str(test) and test.shortDescription() give
QTests == [context : {Absent, "ctx"}, cls : {Absent, "cls"}, module : {Absent, "mod"},
           doc : {NoDoc, NoneDoc} \cup {StrDoc(t) : t \in DocTexts},
           mdoc : {NoDoc, StrDoc(<<" ", "d">>)},
           str : Strs \cup {Raises, RaisesBase},
           desc : Strs \cup {None, Raises, RaisesBase}]

RECURSIVE LStrip(_)
LStrip(s) == IF s # <<>> /\ Head(s) = " " THEN LStrip(Tail(s)) ELSE s
RECURSIVE RStrip(_)
RStrip(s) == IF s # <<>> /\ s[Len(s)] = " " THEN RStrip(SubSeq(s, 1, Len(s) - 1)) ELSE s
\* str.strip()
Strip(s) == RStrip(LStrip(s))

\* __str__: the plugins' testName, else str(self.test)
Test_str(name, t) == IF name # None THEN name ELSE t.str

\* lines 138-145: the documentation of the wrapped test is stripped in place;
\* reading .strip of an absent attribute or of None raises AttributeError
StripDocs(t) ==
    IF t.doc.state = "str" THEN [t EXCEPT !.doc = StrDoc(Strip(t.doc.val))]
    ELSE IF t.mdoc.state = "str" THEN [t EXCEPT !.mdoc = StrDoc(Strip(t.mdoc.val))]
    ELSE t

\* lines 146-155 with desc = None: self.test.shortDescription() and the
\* comparison with str(self.test), each inside try / except Exception: pass
TestDescription(t) ==
    IF t.desc = RaisesBase THEN [ret |-> Absent, raised |-> TRUE]
    ELSE LET desc == IF t.desc = Raises THEN None ELSE t.desc
         IN IF t.str = RaisesBase THEN [ret |-> Absent, raised |-> TRUE]
            ELSE IF t.str = Raises THEN [ret |-> desc, raised |-> FALSE]
            ELSE [ret |-> IF desc = t.str THEN None ELSE desc, raised |-> FALSE]

\* mutant: the duplicate check applied to the plugins' description too, against
\* the wrapper's own string form
Test_shortDescription_cmpAll(d, n, t) ==
    LET r == TestDescription(t)
        form == Test_str(n, t)
    IN IF d # None
       THEN [ret |-> IF d = form THEN None ELSE d, raised |-> FALSE, test |-> t]
       ELSE [ret |-> r.ret, raised |-> r.raised, test |-> StripDocs(t)]

\* shortDescription: d is what describeTest returned, n what testName would
\* return (never asked here), t the wrapped test
Test_shortDescription(d, n, t) ==
    IF d # None
    THEN [ret |-> d, raised |-> FALSE, test |-> t]
    ELSE LET r == TestDescription(t)
         IN [ret |-> r.ret, raised |-> r.raised, test |-> StripDocs(t)]

\* _context: the first of the three attributes that can be read
Test_context(t) ==
    IF t.context # Absent THEN [kind |-> "context", of |-> t.context]
    ELSE IF t.cls # Absent THEN [kind |-> "class", of |-> t.cls]
    ELSE IF t.module # Absent THEN [kind |-> "module", of |-> t.module]
    ELSE NoCtx

\* mutant: the value of the first read is kept and returned by later reads
PropertyGet_memo(reads, last, t) ==
    IF reads > 0 THEN [value |-> last, evals |-> 0]
    ELSE [value |-> Test_context(t), evals |-> 1]

\* context = property(_context, ...): the getter runs on every read
PropertyGet(reads, last, t) == [value |-> Test_context(t), evals |-> 1]

\* a Test is built around a wrapped test
Wrap ==
    /\ qtest = NoQTest
    /\ \E t \in QTests : qtest' = t
    /\ sd' = NoSd
    /\ ctxReads' = 0
    /\ ctxEvals' = 0
    /\ firstCtx' = NoCtx
    /\ lastCtx' = NoCtx
    /\ UNCHANGED <<runVars, isoVars, identVars>>

ShortDescription ==
    /\ qtest # NoQTest
    /\ \E d \in Strs \cup {None}, n \in Strs \cup {None} :
         LET r == Test_shortDescription(d, n, qtest)
         IN /\ sd' = [d |-> d, n |-> n, ret |-> r.ret, raised |-> r.raised]
            /\ qtest' = r.test
    /\ UNCHANGED <<ctxReads, ctxEvals, firstCtx, lastCtx>>
    /\ UNCHANGED <<runVars, isoVars, identVars>>

ReadContext ==
    /\ qtest # NoQTest
    /\ ctxReads < MaxReads
    /\ LET r == PropertyGet(ctxReads, lastCtx, qtest)
       IN /\ lastCtx' = r.value
          /\ firstCtx' = IF ctxReads = 0 THEN r.value ELSE firstCtx
          /\ ctxEvals' = ctxEvals + r.evals
    /\ ctxReads' = ctxReads + 1
    /\ UNCHANGED <<qtest, sd>>
    /\ UNCHANGED <<runVars, isoVars, identVars>>

NextQuery ==
    \/ Wrap
    \/ ShortDescription
    \/ ReadContext

----------------------------------------------------------------------------
(* TestBase, FunctionTestCase and MethodTestCase                           *)

MaxCases == 2

\* A callable: its __name__, its __module__, its compat_func_name (None when
\* it has none), its truth value and the instance it is bound to (0: a plain
\* function, bound to nothing).
Callable(name, inst, truthy, compat) ==
    [name |-> name, module |-> "mod", compat |-> compat, truthy |-> truthy, self |-> inst]
NoneObj == [name |-> None, module |-> None, compat |-> None, truthy |-> FALSE, self |-> 0]

PlainF == Callable("f", 0, TRUE, None)
CompatF == Callable("g", 0, TRUE, "g_compat")
SetUpF == Callable("su", 0, TRUE, None)
TearDownF == Callable("td", 0, TRUE, None)
\* descriptors: a generator function, and a callable object whose truth value is False
GenD == Callable("gen", 0, TRUE, None)
FalsyD == Callable("genobj", 0, FALSE, None)
Bound(i, name) == Callable(name, i, TRUE, None)
\* an inline callable yielded by a generator; it works on instance i (0: on none)
Inline(i) == Callable("inline", i, TRUE, None)
MethodNames == {"test_a", "test_b"}
Args == {<<>>, <<1, 2>>}

NoCase == [kind |-> None]
NoWrite == [by |-> 0, via |-> None, obj |-> 0]
NoIdent == [op |-> None]

\* nose.util.test_address: the address of an object, made of where it is defined
test_address(o) == [module |-> o.module, call |-> o.name, self |-> o.self]

isfunction(o) == o # NoneObj /\ o.self = 0

FunctionTestCase_init(test, setUp, tearDown, arg, descriptor) ==
    [kind |-> "function", test |-> test, setUpFunc |-> setUp,
     tearDownFunc |-> tearDown, arg |-> arg, descriptor |-> descriptor]

\* mutant: a new case runs on the instance the method is bound to
NewInstance_reuse(method, h) == method.self

\* self.inst = self.cls(): a newly allocated instance
NewInstance(method, h) == Len(h) + 1

\* MethodTestCase.__init__ on heap h: the object, the heap afterwards, what it raised
MethodTestCase_init(method, test, arg, descriptor, h) ==
    IF isfunction(method)
    THEN [raised |-> "ValueError", obj |-> NoCase, heap |-> h]
    ELSE LET cls == h[method.self].cls
             inst == NewInstance(method, h)
         IN [raised |-> None,
             obj |-> [kind |-> "method", method |-> method,
                      test |-> IF test = NoneObj THEN Bound(inst, method.name) ELSE test,
                      arg |-> arg, descriptor |-> descriptor, cls |-> cls, inst |-> inst],
             heap |-> IF inst > Len(h) THEN Append(h, [cls |-> cls, attr |-> 0]) ELSE h]

\* TestBase.runTest: self.test(*self.arg)
TestBase_runTest(c) == [callee |-> c.test, args |-> c.arg]

\* FunctionTestCase.address and MethodTestCase.address
Case_address(c) ==
    IF c.descriptor # NoneObj THEN test_address(c.descriptor)
    ELSE IF c.kind = "function" THEN test_address(c.test)
    ELSE test_address(c.method)

\* FunctionTestCase._descriptors and MethodTestCase._descriptors
Case_descriptors(c) ==
    IF c.descriptor.truthy THEN [func |-> c.descriptor, arg |-> c.arg]
    ELSE IF c.kind = "function" THEN [func |-> c.test, arg |-> c.arg]
    ELSE [func |-> c.method, arg |-> c.arg]

\* FunctionTestCase.__str__ and MethodTestCase.__str__; the argument tuple is
\* appended when it is not empty
Case_str(c) ==
    LET d == Case_descriptors(c)
        name == IF d.func.compat # None THEN d.func.compat ELSE d.func.name
    IN [module |-> IF c.kind = "function" THEN d.func.module ELSE "mod",
        cls |-> IF c.kind = "function" THEN None ELSE c.cls,
        name |-> name,
        arg |-> IF d.arg # <<>> THEN d.arg ELSE <<>>]

\* FunctionTestCase.setUp / tearDown: the function given, else the first
\* fixture attribute of the test function (try_run)
Function_fixture(c, given) == IF given.truthy THEN given ELSE Callable("try_run", 0, TRUE, None)

\* the instance a callable writes instance attributes on (0: none)
WritesOn(callee) == callee.self

Write(h, obj, by) == IF obj = 0 THEN h ELSE [h EXCEPT ![obj].attr = by]

\* the loader builds a MethodTestCase from a bound method of an existing
\* instance (or wrongly from a plain function), with or without an explicit
\* test callable
MethodCaseNew ==
    /\ Len(cases) < MaxCases
    /\ \E m \in {PlainF} \cup {Bound(i, n) : i \in DOMAIN heap, n \in MethodNames},
          t \in {NoneObj} \cup {Inline(j) : j \in {0} \cup DOMAIN heap} :
         LET r == MethodTestCase_init(m, t, <<>>, NoneObj, heap)
         IN /\ r.raised = None
            /\ cases' = Append(cases, r.obj)
            /\ heap' = r.heap
    /\ UNCHANGED lastWrite
    /\ UNCHANGED <<runVars, queryVars, identVars>>

\* MethodTestCase.setUp: try_run(self.inst, ('setup', 'setUp'))
MethodSetUp ==
    /\ \E i \in DOMAIN cases :
         /\ heap' = Write(heap, cases[i].inst, i)
         /\ lastWrite' = [by |-> i, via |-> "setUp", obj |-> cases[i].inst]
    /\ UNCHANGED cases
    /\ UNCHANGED <<runVars, queryVars, identVars>>

\* TestBase.runTest on a MethodTestCase
MethodRunTest ==
    /\ \E i \in DOMAIN cases :
         LET call == TestBase_runTest(cases[i])
         IN /\ heap' = Write(heap, WritesOn(call.callee), i)
            /\ lastWrite' = [by |-> i, via |-> "runTest", obj |-> WritesOn(call.callee)]
    /\ UNCHANGED cases
    /\ UNCHANGED <<runVars, queryVars, identVars>>

\* MethodTestCase.tearDown: try_run(self.inst, ('teardown', 'tearDown'))
MethodTearDown ==
    /\ \E i \in DOMAIN cases :
         /\ heap' = Write(heap, cases[i].inst, i)
         /\ lastWrite' = [by |-> i, via |-> "tearDown", obj |-> cases[i].inst]
    /\ UNCHANGED cases
    /\ UNCHANGED <<runVars, queryVars, identVars>>

NextIso ==
    \/ MethodCaseNew
    \/ MethodSetUp
    \/ MethodRunTest
    \/ MethodTearDown

\* one FunctionTestCase is built
FunctionCaseNew ==
    /\ icase = NoCase
    /\ \E t \in {PlainF, CompatF}, su \in {NoneObj, SetUpF}, td \in {NoneObj, TearDownF},
          a \in Args, d \in {NoneObj, GenD, FalsyD} :
         icase' = FunctionTestCase_init(t, su, td, a, d)
    /\ ilast' = NoIdent
    /\ UNCHANGED <<runVars, queryVars, isoVars>>

\* one MethodTestCase is built
IdentMethodCaseNew ==
    /\ icase = NoCase
    /\ \E m \in {Bound(i, n) : i \in DOMAIN heap, n \in MethodNames},
          t \in {NoneObj, Inline(0)}, a \in Args, d \in {NoneObj, GenD, FalsyD} :
         LET r == MethodTestCase_init(m, t, a, d, heap)
         IN /\ icase' = r.obj
            /\ heap' = r.heap
    /\ ilast' = NoIdent
    /\ UNCHANGED <<cases, lastWrite>>
    /\ UNCHANGED <<runVars, queryVars>>

Address ==
    /\ icase # NoCase
    /\ ilast' = [op |-> "address", ret |-> Case_address(icase)]
    /\ UNCHANGED <<icase, runVars, queryVars, isoVars>>

Str ==
    /\ icase # NoCase
    /\ ilast' = [op |-> "str", ret |-> Case_str(icase)]
    /\ UNCHANGED <<icase, runVars, queryVars, isoVars>>

RunTest ==
    /\ icase # NoCase
    /\ ilast' = [op |-> "runTest", ret |-> TestBase_runTest(icase)]
    /\ UNCHANGED <<icase, runVars, queryVars, isoVars>>

FunctionSetUp ==
    /\ icase # NoCase
    /\ icase.kind = "function"
    /\ ilast' = [op |-> "setUp", ret |-> Function_fixture(icase, icase.setUpFunc)]
    /\ UNCHANGED <<icase, runVars, queryVars, isoVars>>

FunctionTearDown ==
    /\ icase # NoCase
    /\ icase.kind = "function"
    /\ ilast' = [op |-> "tearDown", ret |-> Function_fixture(icase, icase.tearDownFunc)]
    /\ UNCHANGED <<icase, runVars, queryVars, isoVars>>

NextIdent ==
    \/ FunctionCaseNew
    \/ IdentMethodCaseNew
    \/ Address
    \/ Str
    \/ RunTest
    \/ FunctionSetUp
    \/ FunctionTearDown

InitRun ==
    /\ self = UnassignedSelf
    /\ ctor = [test |-> NoTest, raised |-> None, obj |-> UnassignedSelf]
    /\ pc = "idle"
    /\ entry = "run"
    /\ origResult = NoResult
    /\ result = NoResult
    /\ plug = None
    /\ called = None
    /\ pending = NoExc
    /\ log = <<>>
    /\ leaves = Returned

InitQuery ==
    /\ qtest = NoQTest
    /\ sd = NoSd
    /\ ctxReads = 0
    /\ ctxEvals = 0
    /\ firstCtx = NoCtx
    /\ lastCtx = NoCtx

\* the loader has made one instance of the test class, whose methods it collects
InitIso ==
    /\ heap = <<[cls |-> "C", attr |-> 0]>>
    /\ cases = <<>>
    /\ lastWrite = NoWrite

InitIdent ==
    /\ icase = NoCase
    /\ ilast = NoIdent

Init == InitRun /\ InitQuery /\ InitIso /\ InitIdent

SpecRun == Init /\ [][NextRun]_vars
SpecQuery == Init /\ [][NextQuery]_vars
SpecIso == Init /\ [][NextIso]_vars
SpecIdent == Init /\ [][NextIdent]_vars

----------------------------------------------------------------------------
(* Properties of Test.__init__, Test.run and Test.runTest                  *)

Count(op) == Cardinality({i \in DOMAIN log : log[i].op = op})
Ended(op, o) == \E i \in DOMAIN log : log[i].op = op /\ log[i].out = o
InRun == pc # "idle" /\ entry = "run"
RunDone == pc = "done" /\ entry = "run"
\* the result-proxy factory raised: run ended at line 110, before the try statement
FactoryRaised == \E i \in DOMAIN log : log[i].op = "resultProxy" /\ log[i].out # "ok"
AfterRaised == \E i \in DOMAIN log : log[i].op = "afterTest" /\ log[i].out # "ok"
\* the interrupt raised by the before-hook or by the test callable, if any
InterruptSites == {s \in {"beforeTest", "call"} : Ended(s, "KeyboardInterrupt")}
SiteName(s) == IF s = "call" THEN "test" ELSE s

\* C1 as stated: when a call of run is over, the after-hook of the result
\* (when it has one) was invoked exactly once, whatever the exit path.
C1_AsStated ==
    /\ Count("afterTest") <= 1
    /\ (RunDone /\ result.hasAfter) => Count("afterTest") = 1

\* C1 amended: the after-hook is never invoked twice; when a call of run is
\* over and the result-proxy factory did not raise, the after-hook of the
\* (proxied) result was invoked exactly once when that result has one and
\* as the last call of run; when the factory raised, run ended before the try
\* statement and no hook was invoked.
C1_AfterHookOnce ==
    /\ InRun => Count("afterTest") <= 1
    /\ (RunDone /\ ~FactoryRaised) =>
          /\ Count("afterTest") = (IF result.hasAfter THEN 1 ELSE 0)
          /\ result.hasAfter => log[Len(log)].op = "afterTest"
    /\ (RunDone /\ FactoryRaised) =>
          /\ Count("afterTest") = 0
          /\ Count("beforeTest") = 0

\* an interrupt is re-raised through a configured proxy and the after-hook ran once
C1_Witness ==
    /\ RunDone
    /\ result.name = "proxy"
    /\ leaves = Exc("KeyboardInterrupt", "test")
    /\ Count("afterTest") = 1

\* C2 as stated: when the test callable raised an exception other than the
\* interrupt, run called addError exactly once, with the adapter and the
\* captured error, and returned normally.
C2_AsStated ==
    (RunDone /\ \E c \in ExcClasses \ {"KeyboardInterrupt"} : Ended("call", c)) =>
        /\ Count("addError") = 1
        /\ \A i \in DOMAIN log : log[i].op = "addError" =>
              /\ log[i].arg = "self"
              /\ log[i].err.by = "test"
              /\ log[i].on = result.name
        /\ leaves = Returned

\* C3 as stated: an interrupt raised by the before-hook or the test callable
\* is the exception that leaves run, addError is not called, and the
\* after-hook (when the result has one) fired exactly once.
C3_AsStated ==
    \A s \in InterruptSites :
        RunDone =>
            /\ leaves = Exc("KeyboardInterrupt", SiteName(s))
            /\ Count("addError") = 0
            /\ result.hasAfter => Count("afterTest") = 1

\* C3 amended: after such an interrupt addError is not called and the
\* after-hook (when the result has one) fired exactly once; the exception
\* that leaves run is that same interrupt unless the after-hook itself
\* raised, and then it is the after-hook's exception.
C3_InterruptPropagates ==
    \A s \in InterruptSites :
        /\ InRun => Count("addError") = 0
        /\ RunDone =>
            /\ result.hasAfter => Count("afterTest") = 1
            /\ ~AfterRaised => leaves = Exc("KeyboardInterrupt", SiteName(s))
            /\ AfterRaised => leaves.by = "afterTest"

\* the before-hook raised the interrupt, the after-hook ran, the interrupt left run
C3_Witness ==
    /\ RunDone
    /\ leaves = Exc("KeyboardInterrupt", "beforeTest")
    /\ Count("afterTest") = 1

\* C7: a constructor call with a non-callable raises TypeError with no field
\* of the object assigned; with a callable it raises nothing, test is the
\* argument and tbinfo, capturedOutput and passed are None; the test of an
\* existing wrapper, and of a wrapper inside run, is callable.
C7_ConstructionChecked ==
    /\ (ctor.test # NoTest /\ ~ctor.test.callable) =>
          /\ ctor.raised = "TypeError"
          /\ ctor.obj = UnassignedSelf
    /\ (ctor.test # NoTest /\ ctor.test.callable) =>
          /\ ctor.raised = None
          /\ ctor.obj.test = ctor.test
          /\ ctor.obj.tbinfo = None
          /\ ctor.obj.capturedOutput = None
          /\ ctor.obj.passed = None
          /\ self = ctor.obj
    /\ self # UnassignedSelf => self.test.callable
    /\ pc # "idle" => self.test.callable

\* a wrapper exists and a constructor call with the non-callable then failed
C7_Witness ==
    /\ ctor.raised = "TypeError"
    /\ ctor.test.name = "n1"
    /\ self # UnassignedSelf

\* C9: runTest invokes prepareTestCase's callable when it returned one and the
\* wrapped test when it returned None, once, with result; the test field of
\* the wrapper is the same after every step of the call.
C9_Substitution ==
    /\ [](pc # "idle" =>
            /\ Count("call") <= 1
            /\ \A i \in DOMAIN log : log[i].op = "call" =>
                  /\ log[i].on = (IF plug = None THEN self.test.name ELSE plug)
                  /\ plug # None => log[i].on # self.test.name
                  /\ log[i].arg = result.name
            /\ (pc = "done" /\ Ended("prepareTestCase", "ok")) => Count("call") = 1)
    /\ [][pc # "idle" => self' = self]_vars

\* a direct runTest call invoked the plugin's callable and not the wrapped test
C9_Witness ==
    /\ pc = "done"
    /\ entry = "runTest"
    /\ plug = PlugTest.name
    /\ called = PlugTest.name
    /\ self.test.name = "t1"
    /\ Count("call") = 1

Before(a, b) ==
    \A i, j \in DOMAIN log : (log[i].op = a /\ log[j].op = b) => i < j

\* C10 as stated: the before-hook (argument: the wrapped test) precedes the
\* test callable, the after-hook (same argument) follows both and addError;
\* a non-interrupt exception of the before-hook means no call of the test
\* callable, one addError(adapter, error) and the after-hook; with a proxy
\* configured every one of these calls gets the proxy, never the original.
C10_AsStated ==
    InRun =>
      /\ Before("beforeTest", "call")
      /\ Before("beforeTest", "afterTest")
      /\ Before("call", "afterTest")
      /\ Before("addError", "afterTest")
      /\ \A i \in DOMAIN log : log[i].op \in {"beforeTest", "afterTest"} =>
            log[i].arg = self.test.name
      /\ (\E c \in ExcClasses \ {"KeyboardInterrupt"} : Ended("beforeTest", c)) =>
            /\ Count("call") = 0
            /\ pc = "done" =>
                  /\ Count("addError") = 1
                  /\ \A i \in DOMAIN log : log[i].op = "addError" =>
                        log[i].arg = "self" /\ log[i].err.by = "beforeTest"
                  /\ result.hasAfter => Count("afterTest") = 1
      /\ Ended("resultProxy", "ok") =>
            \A i \in DOMAIN log :
               /\ log[i].op \in {"beforeTest", "addError", "afterTest"} => log[i].on = "proxy"
               /\ log[i].op = "call" => log[i].arg = "proxy"

----------------------------------------------------------------------------
(* Properties of Test.shortDescription and Test.context                    *)

SdCalled == sd # NoSd
\* the wrapped test's description as shortDescription resolves it
SdOfTest == IF qtest.desc \in {Raises, RaisesBase} THEN None ELSE qtest.desc
\* the description shortDescription resolved: the plugins', else the wrapped test's
SdResolved == IF sd.d # None THEN sd.d ELSE SdOfTest

\* C6 as stated: shortDescription returns None whenever the resolved
\* description equals the wrapper's string form (testName when non-null, else
\* the wrapped test's string form), and the resolved description otherwise.
C6_AsStated ==
    (SdCalled /\ ~sd.raised) =>
        sd.ret = (IF SdResolved = Test_str(sd.n, qtest) THEN None ELSE SdResolved)

\* C6 amended: a non-null describeTest result is returned unchanged, equal to
\* the string form or not; otherwise the result is the wrapped test's
\* shortDescription() (None when that raises an Exception), except that it is
\* None when it equals str(self.test), the wrapped test's own string form;
\* testName plays no part; an exception of these two calls that does not
\* derive from Exception leaves shortDescription.
C6_ShortDescription ==
    SdCalled =>
        /\ sd.d # None => (sd.ret = sd.d /\ ~sd.raised)
        /\ sd.d = None =>
              /\ sd.raised <=> (qtest.desc = RaisesBase \/ qtest.str = RaisesBase)
              /\ (~sd.raised /\ SdOfTest = qtest.str) => sd.ret = None
              /\ (~sd.raised /\ SdOfTest # qtest.str) => sd.ret = SdOfTest

\* the plugins' description equals the wrapper's string form and is returned
C6_Witness ==
    /\ SdCalled
    /\ sd.d = "s1"
    /\ sd.n = "s1"
    /\ sd.ret = "s1"
    /\ ~sd.raised

----------------------------------------------------------------------------
(* Properties of MethodTestCase and FunctionTestCase                       *)

\* the test callable of case c is its method looked up again on its own instance
Rebound(c) == c.test = Bound(c.inst, c.method.name)
\* the number of the case that last wrote the instance of case j (0: nobody)
SeenThrough(j) == heap[cases[j].inst].attr

OwnInstances ==
    /\ \A i, j \in DOMAIN cases : i # j => cases[i].inst # cases[j].inst
    /\ \A i \in DOMAIN cases :
          /\ cases[i].inst # cases[i].method.self
          /\ cases[i].cls = heap[cases[i].method.self].cls
          /\ heap[cases[i].inst].cls = cases[i].cls

\* C4 as stated: every case has an instance of its own, which is not the one
\* its method was bound to, and a write made while one case's test callable
\* or fixtures run is never seen through another case's instance.
C4_AsStated ==
    /\ OwnInstances
    /\ \A j \in DOMAIN cases : SeenThrough(j) \in {0, j}

\* C4 amended: every case has an instance of its own, which is not the one
\* its method was bound to; a write made by a case's fixtures, or by its test
\* callable when that is the method looked up on its own instance (no explicit
\* test was passed), lands on its own instance only; what is seen through a
\* case's instance was written by that case or by an explicit test callable
\* bound to that instance.
C4_Isolation ==
    /\ OwnInstances
    /\ \A j \in DOMAIN cases :
          \/ SeenThrough(j) \in {0, j}
          \/ /\ ~Rebound(cases[SeenThrough(j)])
             /\ cases[SeenThrough(j)].test.self = cases[j].inst
    /\ lastWrite # NoWrite =>
          \/ lastWrite.obj = cases[lastWrite.by].inst
          \/ lastWrite.via = "runTest" /\ ~Rebound(cases[lastWrite.by])
    /\ \A i \in DOMAIN cases : cases[i].test.name # "inline" => Rebound(cases[i])

\* two cases built from the same bound method; the first one's test wrote its
\* own instance and the second one's instance is untouched
C4_Witness ==
    /\ Len(cases) = 2
    /\ cases[1].method = cases[2].method
    /\ Rebound(cases[1])
    /\ Rebound(cases[2])
    /\ lastWrite = [by |-> 1, via |-> "runTest", obj |-> cases[1].inst]
    /\ SeenThrough(1) = 1
    /\ SeenThrough(2) = 0

\* C5 as stated: with a descriptor other than None, address() is the address
\* of the descriptor, the string form is built from the descriptor's name, and
\* runTest invokes the stored callable with the stored arguments, not the
\* descriptor.
C5_AsStated ==
    (icase # NoCase /\ icase.descriptor # NoneObj) =>
        /\ ilast.op = "address" => ilast.ret = test_address(icase.descriptor)
        /\ ilast.op = "str" => ilast.ret.name = icase.descriptor.name
        /\ ilast.op = "runTest" =>
              /\ ilast.ret.callee = icase.test
              /\ ilast.ret.args = icase.arg
              /\ ilast.ret.callee # icase.descriptor
====
